---- MODULE Spec2Model ----
(***************************************************************************)
(* A model of macromind-backend: the in-memory indicator cache and its     *)
(* refresh cycle (app/data_fetcher.py, main.py), the query handlers        *)
(* (api/*.py) and the rule engine (app/agent.py).                          *)
(*                                                                         *)
(* Numbers.  Observation values (latest_value, previous_value) are held in *)
(* hundredths: 3.5 is 350, 96.1 is 9610.  A stored change_percent is held  *)
(* in hundredths of a percent: 0.1 % is 10, 2.5 % is 250.  The unrounded   *)
(* change_percent of fetch_latest_data is a rational [num, den] in the     *)
(* same unit.  Scores are the integers 2..10; a mean is a rational.        *)
(*                                                                         *)
(* A Python dict is an insertion-ordered sequence of [key, value] entries. *)
(* A FRED value string is a tuple: <<n>> for a number, <<>> for ".".       *)
(***************************************************************************)
EXTENDS Integers, Sequences, FiniteSets, TLC

VARIABLES
    economic_data_cache,  \* data_fetcher.economic_data_cache (the store)
    lifespan_pc,          \* position of main.lifespan
    periodic_pc,          \* position of main.periodic_update
    update,               \* per caller: the frame of update_economic_data
    before,               \* history: the store when the latest cycle began
    fetched,              \* history: data returned by the latest cycle's fetches
    failed,               \* history: keys whose fetch returned None in that cycle
    completed,            \* history: whether a cycle has completed, and the keys
                          \* whose fetch failed in the latest one that has
    response,             \* the response of the handler that ran in the latest step
                          \* (NoResponse when that step was not a request)
    agent,                \* intelligence_agent's fields (last_analysis, alerts)
    indicators_arg,       \* the snapshot set handed to the rule engine directly
    clock,                \* datetime.now(), in ticks
    calls                 \* history: the direct calls of the rule engine

vars == <<economic_data_cache, lifespan_pc, periodic_pc, update, before, fetched,
          failed, completed, response, agent, indicators_arg, clock, calls>>

storeVars == <<economic_data_cache, lifespan_pc, periodic_pc, update, before,
               fetched, failed, completed, response>>

----------------------------------------------------------------------------
(* Python values *)

None == [none |-> TRUE]

Abs(x) == IF x < 0 THEN -x ELSE x

\* dict helpers (insertion-ordered)
EmptyDict == <<>>

Keys(d) == {d[i].key : i \in 1..Len(d)}

Has(d, k) == k \in Keys(d)

Get(d, k) == IF Has(d, k) THEN d[CHOOSE i \in 1..Len(d) : d[i].key = k].value ELSE None

\* d[k] = v : replaces in place when k is there, appends otherwise
Put(d, k, v) ==
    IF Has(d, k)
    THEN [i \in 1..Len(d) |-> IF d[i].key = k THEN [key |-> k, value |-> v] ELSE d[i]]
    ELSE Append(d, [key |-> k, value |-> v])

----------------------------------------------------------------------------
(* app/config.py *)

CORE_INDICATORS == <<
    [key |-> "GDP",                series_id |-> "GDP",      name |-> "Gross Domestic Product"],
    [key |-> "UNEMPLOYMENT",       series_id |-> "UNRATE",   name |-> "Unemployment Rate"],
    [key |-> "INFLATION",          series_id |-> "CPIAUCSL", name |-> "Consumer Price Index"],
    [key |-> "FED_FUNDS",          series_id |-> "FEDFUNDS", name |-> "Federal Funds Rate"],
    [key |-> "CONSUMER_SENTIMENT", series_id |-> "UMCSENT",  name |-> "Consumer Sentiment"] >>

ConfiguredKeys == {CORE_INDICATORS[i].key : i \in 1..Len(CORE_INDICATORS)}

----------------------------------------------------------------------------
(* app/data_fetcher.py : FREDDataFetcher.fetch_latest_data *)

Dot == <<>>

\* float(s) of a value string that is not "."
ParseFloat(s) == s[1]

\* round(x, 2) of the rational num/den (den # 0): to the nearest hundredth,
\* an exact tie to the even one
Round2(num, den) ==
    LET n == IF den < 0 THEN -num ELSE num
        d == Abs(den)
        q == n \div d
        r == n - q * d
    IN  IF 2 * r < d THEN q
        ELSE IF 2 * r > d THEN q + 1
        ELSE IF q % 2 = 0 THEN q ELSE q + 1

\* num/den > c and num/den < c, for den # 0
RatGt(x, c) == IF x.den > 0 THEN x.num > c * x.den ELSE x.num < c * x.den

RatLt(x, c) == IF x.den > 0 THEN x.num < c * x.den ELSE x.num > c * x.den

\* line 42: ((latest_val - prev_val) / prev_val * 100) if prev_val != 0 else 0
ChangePercent(latest_val, prev_val) ==
    IF prev_val # 0
    THEN [num |-> (latest_val - prev_val) * 10000, den |-> prev_val]
    ELSE [num |-> 0, den |-> 1]

\* line 50: the trend, taken from the unrounded change_percent
TrendOfChange(change_percent) ==
    IF RatGt(change_percent, 10) THEN "up"
    ELSE IF RatLt(change_percent, -10) THEN "down"
    ELSE "stable"

\* resp is what the HTTP exchange yields: error (any exception of lines 31-33)
\* or the decoded JSON's observations, newest first
fetch_latest_data(series_id, resp) ==
    IF resp.error THEN None
    ELSE IF Len(resp.observations) >= 2
    THEN LET latest == resp.observations[1]
             previous == resp.observations[2]
             latest_val == IF latest.value # Dot THEN ParseFloat(latest.value) ELSE 0
             prev_val == IF previous.value # Dot THEN ParseFloat(previous.value) ELSE 0
             change_percent == ChangePercent(latest_val, prev_val)
         IN  [series_id |-> series_id,
              latest_value |-> latest_val,
              previous_value |-> prev_val,
              change_percent |-> Round2(change_percent.num, change_percent.den),
              date |-> latest.date,
              trend |-> TrendOfChange(change_percent)]
    ELSE None

----------------------------------------------------------------------------
(* The provider's answers the model draws from *)

Obs(date, value) == [date |-> date, value |-> value]

OkResp(latest, previous) ==
    [error |-> FALSE,
     observations |-> << Obs("2025-02-01", latest), Obs("2025-01-01", previous) >>]

ErrorResp == [error |-> TRUE, observations |-> <<>>]

ShortResp == [error |-> FALSE, observations |-> << Obs("2025-02-01", <<100>>) >>]

Responses(key) ==
    {ErrorResp, ShortResp} \cup
    CASE key = "GDP"                -> {OkResp(<<10300>>, <<10000>>), OkResp(<<10300>>, Dot)}
      [] key = "UNEMPLOYMENT"       -> {OkResp(<<750>>, <<700>>)}
      [] key = "INFLATION"          -> {OkResp(<<32050>>, <<32000>>)}
      [] key = "FED_FUNDS"          -> {OkResp(<<650>>, <<650>>)}
      [] key = "CONSUMER_SENTIMENT" -> {OkResp(<<9610>>, <<9600>>)}

----------------------------------------------------------------------------
(* app/data_fetcher.py : update_economic_data, one frame per caller *)

Callers == {"lifespan", "periodic"}

IdleFrame == [active |-> FALSE, idx |-> 0, indicators |-> EmptyDict]

\* lines 70-79: indicators after the fetch of CORE_INDICATORS[i] returned data
IndicatorsAfterFetch(indicators, config, data) ==
    IF data # None
    THEN Put(indicators, config.key,
             [series_id |-> data.series_id,
              name |-> config.name,
              latest_value |-> data.latest_value,
              previous_value |-> data.previous_value,
              change_percent |-> data.change_percent,
              date |-> data.date,
              trend |-> data.trend])
    ELSE indicators

\* faulty variant: the refresh writes the shared dict in place, entry by entry
CacheWrittenInPlace(cache, indicators, loop_over) == indicators

\* faulty variant: the rebinding keeps the old entry of a key that was not fetched
CacheRetainsMissing(cache, indicators, loop_over) ==
    IF loop_over
    THEN indicators \o SelectSeq(cache, LAMBDA e : ~Has(indicators, e.key))
    ELSE cache

\* faulty variant: the rebinding is skipped when nothing was fetched
CacheKeptWhenEmpty(cache, indicators, loop_over) ==
    IF loop_over /\ indicators # EmptyDict THEN indicators ELSE cache

\* the store after a fetch has been handled: line 81 rebinds the global once
\* the loop is over; until then the global is not touched
CacheAfterFetch(cache, indicators, loop_over) ==
    IF loop_over THEN indicators ELSE cache

\* line 66 and the first pass of line 69, up to its await
BeginUpdate(c) ==
    /\ update' = [update EXCEPT ![c] = [active |-> TRUE, idx |-> 1, indicators |-> EmptyDict]]
    /\ before' = economic_data_cache
    /\ fetched' = EmptyDict
    /\ failed' = {}

----------------------------------------------------------------------------
(* app/agent.py : EconomicIntelligenceAgent *)

\* Optional[float]: <<>> is None, <<x>> is the float x
NoScore == <<>>

Some(x) == <<x>>

\* an f-string: its template and the values it formats
Msg(text) == [text |-> text, args |-> <<>>]

MsgV(text, v) == [text |-> text, args |-> <<v>>]

\* faulty variant: the bounds of the employment rule taken as exclusive
_score_employment_exclusive(unemployment) ==
    IF unemployment = None THEN NoScore
    ELSE LET rate == unemployment.latest_value
         IN  IF rate < 350 THEN Some(10)
             ELSE IF rate < 450 THEN Some(8)
             ELSE IF rate < 600 THEN Some(6)
             ELSE IF rate < 800 THEN Some(4)
             ELSE Some(2)

\* lines 52-67
_score_employment(unemployment) ==
    IF unemployment = None THEN NoScore
    ELSE LET rate == unemployment.latest_value
         IN  IF rate <= 350 THEN Some(10)
             ELSE IF rate <= 450 THEN Some(8)
             ELSE IF rate <= 600 THEN Some(6)
             ELSE IF rate <= 800 THEN Some(4)
             ELSE Some(2)

\* lines 69-83
_score_inflation(cpi) ==
    IF cpi = None THEN NoScore
    ELSE LET change == Abs(cpi.change_percent)
         IN  IF change <= 250 THEN Some(9)
             ELSE IF change <= 400 THEN Some(7)
             ELSE IF change <= 600 THEN Some(5)
             ELSE Some(3)

\* lines 85-100
_score_growth(gdp) ==
    IF gdp = None THEN NoScore
    ELSE LET change == gdp.change_percent
         IN  IF change >= 300 THEN Some(9)
             ELSE IF change >= 200 THEN Some(7)
             ELSE IF change >= 100 THEN Some(6)
             ELSE IF change >= 0 THEN Some(4)
             ELSE Some(2)

\* lines 102-117
_score_sentiment(sentiment) ==
    IF sentiment = None THEN NoScore
    ELSE LET value == sentiment.latest_value
         IN  IF value >= 10000 THEN Some(9)
             ELSE IF value >= 9000 THEN Some(7)
             ELSE IF value >= 8000 THEN Some(6)
             ELSE IF value >= 7000 THEN Some(4)
             ELSE Some(3)

\* lines 119-135
_score_monetary_policy(fed_funds) ==
    IF fed_funds = None THEN NoScore
    ELSE LET rate == fed_funds.latest_value
             trend == fed_funds.trend
         IN  IF rate <= 200 /\ trend = "stable" THEN Some(8)
             ELSE IF rate <= 500 /\ trend = "up" THEN Some(6)
             ELSE IF rate > 500 THEN Some(4)
             ELSE Some(7)

\* lines 18-22: the five sub-scores, in the order of line 25
SubScores(indicators) ==
    << _score_employment(Get(indicators, "UNEMPLOYMENT")),
       _score_inflation(Get(indicators, "INFLATION")),
       _score_growth(Get(indicators, "GDP")),
       _score_sentiment(Get(indicators, "CONSUMER_SENTIMENT")),
       _score_monetary_policy(Get(indicators, "FED_FUNDS")) >>

\* line 25: the scores that are not None
PresentScores(all) == SelectSeq(all, LAMBDA s : s # NoScore)

RECURSIVE SumScores(_)
SumScores(scores) ==
    IF scores = <<>> THEN 0 ELSE scores[1][1] + SumScores(Tail(scores))

\* faulty variant: an absent sub-score counted as zero: the sum over all five
OverallScoreAbsentAsZero(scores) ==
    IF scores # <<>>
    THEN [num |-> SumScores(scores), den |-> 5]
    ELSE [num |-> 5, den |-> 1]

\* line 26: np.mean(scores) if scores else 5.0, as a rational
OverallScore(scores) ==
    IF scores # <<>>
    THEN [num |-> SumScores(scores), den |-> Len(scores)]
    ELSE [num |-> 5, den |-> 1]

\* lines 29-34
HealthOf(overall_score) ==
    IF overall_score.num >= 7 * overall_score.den THEN "strong"
    ELSE IF overall_score.num >= 5 * overall_score.den THEN "moderate"
    ELSE "weak"

\* line 48: min(overall_score / 10, 1.0), as a rational
Confidence(overall_score) ==
    IF overall_score.num < 10 * overall_score.den
    THEN [num |-> overall_score.num, den |-> 10 * overall_score.den]
    ELSE [num |-> 1, den |-> 1]

\* lines 137-168
_identify_concerns(indicators) ==
    LET unemployment == Get(indicators, "UNEMPLOYMENT")
        inflation == Get(indicators, "INFLATION")
        gdp == Get(indicators, "GDP")
        sentiment == Get(indicators, "CONSUMER_SENTIMENT")
        fed_funds == Get(indicators, "FED_FUNDS")
        c1 == IF ~Has(indicators, "UNEMPLOYMENT") THEN <<>>
              ELSE IF unemployment.latest_value > 600
                   THEN << MsgV("High unemployment at {}%", unemployment.latest_value) >>
              ELSE IF unemployment.trend = "up"
                   THEN << Msg("Rising unemployment trend") >>
              ELSE <<>>
        c2 == IF Has(indicators, "INFLATION") /\ Abs(inflation.change_percent) > 500
              THEN << MsgV("High inflation volatility: {}%", inflation.change_percent) >>
              ELSE <<>>
        c3 == IF Has(indicators, "GDP") /\ gdp.change_percent < 0
              THEN << Msg("Negative GDP growth") >>
              ELSE <<>>
        c4 == IF Has(indicators, "CONSUMER_SENTIMENT") /\ sentiment.latest_value < 7000
              THEN << Msg("Low consumer confidence") >>
              ELSE <<>>
        c5 == IF Has(indicators, "FED_FUNDS") /\ fed_funds.latest_value > 600
              THEN << Msg("High interest rates constraining growth") >>
              ELSE <<>>
    IN  c1 \o c2 \o c3 \o c4 \o c5

\* lines 170-205
_identify_opportunities(indicators) ==
    LET unemployment == Get(indicators, "UNEMPLOYMENT")
        inflation == Get(indicators, "INFLATION")
        gdp == Get(indicators, "GDP")
        sentiment == Get(indicators, "CONSUMER_SENTIMENT")
        fed_funds == Get(indicators, "FED_FUNDS")
        o1 == IF ~Has(indicators, "UNEMPLOYMENT") THEN <<>>
              ELSE IF unemployment.latest_value < 400
                   THEN << Msg("Strong labor market supports consumer spending") >>
              ELSE IF unemployment.trend = "down"
                   THEN << Msg("Improving employment conditions") >>
              ELSE <<>>
        o2 == IF ~Has(indicators, "FED_FUNDS") THEN <<>>
              ELSE IF fed_funds.trend = "down"
                   THEN << Msg("Easing monetary policy supports growth") >>
              ELSE IF fed_funds.latest_value < 300
                   THEN << Msg("Low interest rates support investment") >>
              ELSE <<>>
        o3 == IF ~Has(indicators, "CONSUMER_SENTIMENT") THEN <<>>
              ELSE IF sentiment.trend = "up"
                   THEN << Msg("Improving consumer confidence") >>
              ELSE IF sentiment.latest_value > 9000
                   THEN << Msg("High consumer confidence drives spending") >>
              ELSE <<>>
        o4 == IF Has(indicators, "GDP") /\ gdp.change_percent > 250
              THEN << Msg("Strong economic growth momentum") >>
              ELSE <<>>
        o5 == IF Has(indicators, "INFLATION") /\ Abs(inflation.change_percent) < 200
              THEN << Msg("Stable inflation supports economic planning") >>
              ELSE <<>>
    IN  o1 \o o2 \o o3 \o o4 \o o5

\* xs[:2]
FirstTwo(xs) == SubSeq(xs, 1, IF Len(xs) < 2 THEN Len(xs) ELSE 2)

\* lines 207-234: the sentences of the summary, in order
_generate_summary(health, indicators, concerns, opportunities) ==
    LET context_parts ==
            (IF Has(indicators, "UNEMPLOYMENT")
             THEN << MsgV("unemployment at {}%", Get(indicators, "UNEMPLOYMENT").latest_value) >>
             ELSE <<>>)
            \o (IF Has(indicators, "INFLATION")
                THEN << MsgV("inflation trend at {}%", Get(indicators, "INFLATION").change_percent) >>
                ELSE <<>>)
            \o (IF Has(indicators, "FED_FUNDS")
                THEN << MsgV("fed funds rate at {}%", Get(indicators, "FED_FUNDS").latest_value) >>
                ELSE <<>>)
    IN  << [text |-> "Economic health is currently {}.", items |-> << Msg(health) >>] >>
        \o (IF concerns # <<>>
            THEN << [text |-> "Key concerns include: {}.", items |-> FirstTwo(concerns)] >>
            ELSE <<>>)
        \o (IF opportunities # <<>>
            THEN << [text |-> "Opportunities: {}.", items |-> FirstTwo(opportunities)] >>
            ELSE <<>>)
        \o (IF context_parts # <<>>
            THEN << [text |-> "Current conditions: {}.", items |-> context_parts] >>
            ELSE <<>>)

\* lines 14-50.  A method is an operator from the object's fields and the
\* arguments to the returned value (out) and the fields afterwards (self).
analyze_economic_conditions(self, indicators, now) ==
    LET scores == PresentScores(SubScores(indicators))
        overall_score == OverallScore(scores)
        health == HealthOf(overall_score)
        concerns == _identify_concerns(indicators)
        opportunities == _identify_opportunities(indicators)
        summary == _generate_summary(health, indicators, concerns, opportunities)
    IN  [out |-> [timestamp |-> now,
                  economic_health |-> health,
                  key_concerns |-> concerns,
                  opportunities |-> opportunities,
                  confidence |-> Confidence(overall_score),
                  summary |-> summary],
         self |-> self]

\* line 245-250, 254-259, ...: AlertMessage(...)
AlertMessage(severity, indicator, message, timestamp) ==
    [severity |-> severity, indicator |-> indicator, message |-> message,
     timestamp |-> timestamp]

\* faulty variant: the threshold checks chained to the swing check by elif
AlertsOfExclusive(key, indicator, current_time) ==
    IF Abs(indicator.change_percent) > 1000
    THEN << AlertMessage(IF Abs(indicator.change_percent) > 2000 THEN "critical" ELSE "warning",
                         indicator.name,
                         MsgV("{name} changed by {}%", indicator.change_percent),
                         current_time) >>
    ELSE IF key = "UNEMPLOYMENT" /\ indicator.latest_value > 700
    THEN << AlertMessage("critical", indicator.name,
                         MsgV("Unemployment rate high at {}%", indicator.latest_value),
                         current_time) >>
    ELSE IF key = "INFLATION" /\ Abs(indicator.change_percent) > 600
    THEN << AlertMessage("warning", indicator.name,
                         MsgV("High inflation volatility: {}%", indicator.change_percent),
                         current_time) >>
    ELSE IF key = "FED_FUNDS" /\ indicator.latest_value > 600
    THEN << AlertMessage("warning", indicator.name,
                         MsgV("Federal funds rate elevated at {}%", indicator.latest_value),
                         current_time) >>
    ELSE IF key = "CONSUMER_SENTIMENT" /\ indicator.latest_value < 6000
    THEN << AlertMessage("warning", indicator.name,
                         MsgV("Consumer sentiment low at {}", indicator.latest_value),
                         current_time) >>
    ELSE <<>>

\* lines 242-283: the alerts one pass of the loop body appends
AlertsOf(key, indicator, current_time) ==
    (IF Abs(indicator.change_percent) > 1000
     THEN << AlertMessage(IF Abs(indicator.change_percent) > 2000 THEN "critical" ELSE "warning",
                          indicator.name,
                          MsgV("{name} changed by {}%", indicator.change_percent),
                          current_time) >>
     ELSE <<>>)
    \o (IF key = "UNEMPLOYMENT" /\ indicator.latest_value > 700
        THEN << AlertMessage("critical", indicator.name,
                             MsgV("Unemployment rate high at {}%", indicator.latest_value),
                             current_time) >>
        ELSE <<>>)
    \o (IF key = "INFLATION" /\ Abs(indicator.change_percent) > 600
        THEN << AlertMessage("warning", indicator.name,
                             MsgV("High inflation volatility: {}%", indicator.change_percent),
                             current_time) >>
        ELSE <<>>)
    \o (IF key = "FED_FUNDS" /\ indicator.latest_value > 600
        THEN << AlertMessage("warning", indicator.name,
                             MsgV("Federal funds rate elevated at {}%", indicator.latest_value),
                             current_time) >>
        ELSE <<>>)
    \o (IF key = "CONSUMER_SENTIMENT" /\ indicator.latest_value < 6000
        THEN << AlertMessage("warning", indicator.name,
                             MsgV("Consumer sentiment low at {}", indicator.latest_value),
                             current_time) >>
        ELSE <<>>)

\* line 241: for key, indicator in indicators.items(), from the i-th entry on
RECURSIVE AlertLoop(_, _, _, _)
AlertLoop(alerts, indicators, i, current_time) ==
    IF i > Len(indicators) THEN alerts
    ELSE AlertLoop(alerts \o AlertsOf(indicators[i].key, indicators[i].value, current_time),
                   indicators, i + 1, current_time)

\* an alert without its timestamp
Untimed(alert) ==
    [severity |-> alert.severity, indicator |-> alert.indicator, message |-> alert.message]

\* faulty variant: alerts already issued are kept in self.alerts and not issued again
check_alerts_suppressing(self, indicators, now) ==
    LET found == AlertLoop(<<>>, indicators, 1, now)
        fresh == SelectSeq(found, LAMBDA a : \A i \in 1..Len(self.alerts) :
                                                 self.alerts[i] # Untimed(a))
    IN  [out |-> fresh,
         self |-> [self EXCEPT !.alerts =
                      self.alerts \o [i \in 1..Len(fresh) |-> Untimed(fresh[i])]]]

\* lines 236-285: alerts is a fresh local list; self.alerts is not used
check_alerts(self, indicators, now) ==
    [out |-> AlertLoop(<<>>, indicators, 1, now), self |-> self]

\* lines 291-299: the bond signal, from the trend of the fed funds rate
BondSignal(signals, indicators) ==
    LET fed_funds == Get(indicators, "FED_FUNDS")
    IN  IF Has(indicators, "FED_FUNDS")
        THEN Put(signals, "bonds",
                 IF fed_funds.trend = "up" THEN "SELL - Rising rates hurt bond prices"
                 ELSE IF fed_funds.trend = "down" THEN "BUY - Falling rates support bond prices"
                 ELSE "HOLD - Stable rates")
        ELSE signals

\* the decision of lines 306-311
EquityDecision(gdp, unemployment) ==
    IF gdp.change_percent > 200 /\ unemployment.latest_value < 500
    THEN "BUY - Strong growth and employment"
    ELSE IF gdp.change_percent < 0 \/ unemployment.latest_value > 700
    THEN "SELL - Weak economic conditions"
    ELSE "HOLD - Mixed signals"

\* faulty variant: the guard of line 302 covers the BUY and SELL rules only
EquitySignalDefaultsToHold(signals, indicators) ==
    IF Has(indicators, "GDP") /\ Has(indicators, "UNEMPLOYMENT")
    THEN Put(signals, "equities",
             EquityDecision(Get(indicators, "GDP"), Get(indicators, "UNEMPLOYMENT")))
    ELSE Put(signals, "equities", "HOLD - Mixed signals")

\* lines 301-311: the equity signal, from growth and employment
EquitySignal(signals, indicators) ==
    IF Has(indicators, "GDP") /\ Has(indicators, "UNEMPLOYMENT")
    THEN Put(signals, "equities",
             EquityDecision(Get(indicators, "GDP"), Get(indicators, "UNEMPLOYMENT")))
    ELSE signals

\* lines 313-323: the dollar signal, from rates and growth
DollarSignal(signals, indicators) ==
    LET fed_funds == Get(indicators, "FED_FUNDS")
        gdp == Get(indicators, "GDP")
    IN  IF Has(indicators, "FED_FUNDS") /\ Has(indicators, "GDP")
        THEN Put(signals, "dollar",
                 IF fed_funds.trend = "up" /\ gdp.change_percent > 150
                 THEN "BUY - Rising rates and growth support USD"
                 ELSE IF fed_funds.trend = "down" /\ gdp.change_percent < 100
                 THEN "SELL - Falling rates and weak growth"
                 ELSE "HOLD - Neutral conditions")
        ELSE signals

\* lines 287-325
get_trading_signals(self, indicators) ==
    [out |-> DollarSignal(EquitySignal(BondSignal(EmptyDict, indicators), indicators),
                          indicators),
     self |-> self]

----------------------------------------------------------------------------
(* app/data_fetcher.py : get_economic_data ; api/*.py : the handlers *)

\* lines 84-86: the dict the global names at the call
get_economic_data(cache) == cache

HTTPException(endpoint, status_code, detail, data) ==
    [endpoint |-> endpoint, status |-> status_code, body |-> [detail |-> detail],
     data |-> data]

Ok(endpoint, body, data) ==
    [endpoint |-> endpoint, status |-> 200, body |-> body, data |-> data]

NoResponse == [endpoint |-> "none", status |-> 0, body |-> <<>>, data |-> EmptyDict]

\* api/indicators.py lines 11-17
get_indicators(data) ==
    IF data = EmptyDict
    THEN HTTPException("get_indicators", 503, "Data not available", data)
    ELSE Ok("get_indicators", data, data)

\* faulty variant: the handler without its guard for the empty store
get_insights_unguarded(self, data, now) ==
    LET call == analyze_economic_conditions(self, data, now)
    IN  [response |-> Ok("get_insights", call.out, data), self |-> call.self]

\* api/insights.py lines 12-20
get_insights(self, data, now) ==
    IF data = EmptyDict
    THEN [response |-> HTTPException("get_insights", 503, "Data not available", data),
          self |-> self]
    ELSE LET call == analyze_economic_conditions(self, data, now)
         IN  [response |-> Ok("get_insights", call.out, data), self |-> call.self]

\* api/insights.py lines 22-30
get_alerts(self, data, now) ==
    IF data = EmptyDict
    THEN [response |-> Ok("get_alerts", <<>>, data), self |-> self]
    ELSE LET call == check_alerts(self, data, now)
         IN  [response |-> Ok("get_alerts", call.out, data), self |-> call.self]

\* faulty variant: data_available tests the dict against None, not its length
health_check_not_none(data, now) ==
    Ok("health_check",
       [status |-> "healthy",
        timestamp |-> now,
        data_available |-> TRUE,
        last_update |-> IF data # EmptyDict THEN << now >> ELSE <<>>],
       data)

\* api/health.py lines 11-21
health_check(data, now) ==
    Ok("health_check",
       [status |-> "healthy",
        timestamp |-> now,
        data_available |-> Len(data) > 0,
        last_update |-> IF data # EmptyDict THEN << now >> ELSE <<>>],
       data)

----------------------------------------------------------------------------
(* The server: main.py's lifespan and periodic_update, and the requests *)

Init ==
    /\ economic_data_cache = EmptyDict
    /\ lifespan_pc = "init"
    /\ periodic_pc = "none"
    /\ update = [c \in Callers |-> IdleFrame]
    /\ before = EmptyDict
    /\ fetched = EmptyDict
    /\ failed = {}
    /\ completed = [done |-> FALSE, failed |-> {}]
    /\ response = NoResponse
    /\ agent = [last_analysis |-> None, alerts |-> <<>>]
    /\ indicators_arg = EmptyDict
    /\ clock = 0
    /\ calls = <<>>

\* faulty variant: the periodic task is created before the startup refresh
\* is awaited
TaskCreatedBeforeRefresh == [lifespan |-> "updating", periodic |-> "created"]

\* faulty variant: the startup refresh is left running in the background and
\* lifespan yields at once
YieldBeforeRefresh == [lifespan |-> "serving", periodic |-> "none"]

\* main.py lines 15-22: where lifespan and periodic_update stand once lifespan
\* has entered update_economic_data: lifespan awaits it (line 17) ahead of
\* create_task (line 20) and of the yield that lets the server accept requests
\* (line 22)
AfterLifespanStart == [lifespan |-> "updating", periodic |-> "none"]

\* main.py line 17: lifespan enters update_economic_data
LifespanStart ==
    /\ lifespan_pc = "init"
    /\ lifespan_pc' = AfterLifespanStart.lifespan
    /\ periodic_pc' = AfterLifespanStart.periodic
    /\ BeginUpdate("lifespan")
    /\ response' = NoResponse
    /\ UNCHANGED <<economic_data_cache, completed, agent, indicators_arg, clock, calls>>

\* main.py lines 26-27: the periodic task runs up to its sleep
PeriodicStart ==
    /\ periodic_pc = "created"
    /\ periodic_pc' = "sleeping"
    /\ response' = NoResponse
    /\ UNCHANGED <<economic_data_cache, lifespan_pc, update, before, fetched, failed,
                   completed, agent, indicators_arg, clock, calls>>

\* main.py lines 27-28: the sleep is over, update_economic_data is entered
PeriodicWake ==
    /\ periodic_pc = "sleeping"
    /\ periodic_pc' = "updating"
    /\ BeginUpdate("periodic")
    /\ response' = NoResponse
    /\ UNCHANGED <<economic_data_cache, lifespan_pc, completed, agent, indicators_arg,
                   clock, calls>>

\* data_fetcher.py lines 69-82: the await of line 69 returns for caller c; the
\* loop body runs, and either the next fetch is awaited or the loop is over,
\* the global is rebound and the caller goes on to its own next await
\* (lifespan: create_task and yield, main.py lines 20-22; periodic: the sleep)
FetchReturn(c) ==
    /\ update[c].active
    /\ \E resp \in Responses(CORE_INDICATORS[update[c].idx].key) :
          LET config == CORE_INDICATORS[update[c].idx]
              data == fetch_latest_data(config.series_id, resp)
              indicators == IndicatorsAfterFetch(update[c].indicators, config, data)
              loop_over == update[c].idx = Len(CORE_INDICATORS)
          IN  /\ economic_data_cache' =
                     CacheAfterFetch(economic_data_cache, indicators, loop_over)
              /\ update' = [update EXCEPT ![c] =
                     IF loop_over THEN IdleFrame
                     ELSE [active |-> TRUE, idx |-> update[c].idx + 1,
                           indicators |-> indicators]]
              /\ fetched' = IF data # None THEN Put(fetched, config.key, data) ELSE fetched
              /\ failed' = IF data = None THEN failed \cup {config.key} ELSE failed
              /\ completed' = IF loop_over THEN [done |-> TRUE, failed |-> failed']
                               ELSE completed
              /\ lifespan_pc' = IF loop_over /\ c = "lifespan" THEN "serving" ELSE lifespan_pc
              /\ periodic_pc' = IF loop_over /\ c = "lifespan" THEN "created"
                                ELSE IF loop_over /\ c = "periodic" THEN "sleeping"
                                ELSE periodic_pc
    /\ response' = NoResponse
    /\ UNCHANGED <<before, agent, indicators_arg, clock, calls>>

\* GET /api/indicators
GetIndicators ==
    /\ lifespan_pc = "serving"
    /\ response' = get_indicators(get_economic_data(economic_data_cache))
    /\ UNCHANGED <<economic_data_cache, lifespan_pc, periodic_pc, update, before, fetched,
                   failed, completed, agent, indicators_arg, clock, calls>>

\* GET /api/insights
GetInsights ==
    /\ lifespan_pc = "serving"
    /\ LET r == get_insights(agent, get_economic_data(economic_data_cache), clock)
       IN  response' = r.response /\ agent' = r.self
    /\ UNCHANGED <<economic_data_cache, lifespan_pc, periodic_pc, update, before, fetched,
                   failed, completed, indicators_arg, clock, calls>>

\* GET /api/alerts
GetAlerts ==
    /\ lifespan_pc = "serving"
    /\ LET r == get_alerts(agent, get_economic_data(economic_data_cache), clock)
       IN  response' = r.response /\ agent' = r.self
    /\ UNCHANGED <<economic_data_cache, lifespan_pc, periodic_pc, update, before, fetched,
                   failed, completed, indicators_arg, clock, calls>>

\* GET /api/health
HealthCheck ==
    /\ lifespan_pc = "serving"
    /\ response' = health_check(get_economic_data(economic_data_cache), clock)
    /\ UNCHANGED <<economic_data_cache, lifespan_pc, periodic_pc, update, before, fetched,
                   failed, completed, agent, indicators_arg, clock, calls>>

Next ==
    \/ LifespanStart
    \/ PeriodicStart
    \/ PeriodicWake
    \/ \E c \in Callers : FetchReturn(c)
    \/ GetIndicators
    \/ GetInsights
    \/ GetAlerts
    \/ HealthCheck

\* The clock does not move in Spec: no handler's status or data depends on it.
Spec == Init /\ [][Next]_vars

----------------------------------------------------------------------------
(* Properties of the store and of the handlers (Spec) *)

RefreshInProgress == \E c \in Callers : update[c].active

\* a refresh cycle has completed and none is running
AfterCycle == lifespan_pc = "serving" /\ ~RefreshInProgress

NameOf(key) ==
    CORE_INDICATORS[CHOOSE i \in 1..Len(CORE_INDICATORS) : CORE_INDICATORS[i].key = key].name

\* the complete snapshot set a cycle's fetches amount to
SetOfFetched ==
    [i \in 1..Len(fetched) |->
        [key |-> fetched[i].key,
         value |-> [series_id |-> fetched[i].value.series_id,
                    name |-> NameOf(fetched[i].key),
                    latest_value |-> fetched[i].value.latest_value,
                    previous_value |-> fetched[i].value.previous_value,
                    change_percent |-> fetched[i].value.change_percent,
                    date |-> fetched[i].value.date,
                    trend |-> fetched[i].value.trend]]]

\* C1: a handler that reads the store while a refresh cycle is running obtains
\* exactly the set that was in effect when the cycle began, and one that reads
\* when no cycle is running obtains exactly the complete set the latest cycle
\* produced; never a part of the running cycle's set, never a mix.
C1_ReadIsOldOrNewSet ==
    response.endpoint # "none" =>
        IF RefreshInProgress
        THEN response.data = before
        ELSE response.data = SetOfFetched

\* a request served in the middle of a periodic refresh that has already
\* fetched a new value for a key the old set holds with another value
C1_Witness ==
    /\ response.endpoint = "get_indicators"
    /\ update["periodic"].active
    /\ Has(before, "GDP")
    /\ Has(update["periodic"].indicators, "GDP")
    /\ Get(update["periodic"].indicators, "GDP") # Get(before, "GDP")
    /\ response.data = before

\* C2: after a cycle whose fetches failed for the keys F, the store's keys are
\* the configured keys minus F, and each fetched key holds the fetched values.
C2_StoreIsConfiguredMinusFailed ==
    AfterCycle =>
        /\ Keys(economic_data_cache) = ConfiguredKeys \ failed
        /\ Len(economic_data_cache) = Cardinality(ConfiguredKeys \ failed)
        /\ \A k \in Keys(fetched) :
              /\ Get(economic_data_cache, k).latest_value = Get(fetched, k).latest_value
              /\ Get(economic_data_cache, k).previous_value = Get(fetched, k).previous_value
              /\ Get(economic_data_cache, k).change_percent = Get(fetched, k).change_percent
              /\ Get(economic_data_cache, k).date = Get(fetched, k).date
              /\ Get(economic_data_cache, k).trend = Get(fetched, k).trend

\* some fetches failed, one of them for a key the previous set held, and a key
\* that was fetched holds a value other than the previous set's
C2_Witness ==
    /\ AfterCycle
    /\ failed \cap Keys(before) # {}
    /\ Has(economic_data_cache, "GDP")
    /\ Has(before, "GDP")
    /\ Get(economic_data_cache, "GDP") # Get(before, "GDP")
    /\ ~Has(economic_data_cache, "UNEMPLOYMENT")
    /\ Has(before, "UNEMPLOYMENT")

\* C3 (as claimed): after a cycle in which no indicator could be fetched the
\* store still holds the set it held before the cycle.
C3_FailedCycleKeepsPrevious ==
    (AfterCycle /\ failed = ConfiguredKeys) => economic_data_cache = before

\* C3 (amended): after a cycle in which no indicator could be fetched the store
\* holds the empty set, whatever it held before the cycle.
C3_FailedCycleEmptiesStore ==
    (AfterCycle /\ failed = ConfiguredKeys) => economic_data_cache = EmptyDict

C3_Witness ==
    /\ AfterCycle
    /\ failed = ConfiguredKeys
    /\ before # EmptyDict
    /\ economic_data_cache = EmptyDict

\* the deadband of the stored (rounded) change_percent
TrendOfStored(p) == IF p > 10 THEN "up" ELSE IF p < -10 THEN "down" ELSE "stable"

\* C4: every snapshot in the store has trend = up iff its stored changePercent
\* > 0.1, down iff < -0.1, stable otherwise, the stored changePercent being
\* (latest - previous) / previous * 100 rounded to 2 decimals (0 when previous = 0).
C4_TrendFollowsStoredChange ==
    \A i \in 1..Len(economic_data_cache) :
        LET ind == economic_data_cache[i].value
        IN  /\ ind.change_percent =
                  IF ind.previous_value = 0 THEN 0
                  ELSE Round2((ind.latest_value - ind.previous_value) * 10000,
                              ind.previous_value)
            /\ ind.trend = TrendOfStored(ind.change_percent)

\* C10 (as claimed): with the store empty, get_indicators, get_insights and
\* get_alerts each answer "data unavailable" instead of a normal result.
C10_EmptyStoreIsUnavailable ==
    (response.endpoint \in {"get_indicators", "get_insights", "get_alerts"}
        /\ response.data = EmptyDict)
    => response.status = 503

\* C10 (amended): with the store empty, get_indicators and get_insights answer
\* 503 "Data not available"; get_alerts answers normally with no alert.
C10_EmptyStoreResponses ==
    response.data = EmptyDict =>
        /\ response.endpoint \in {"get_indicators", "get_insights"} =>
              /\ response.status = 503
              /\ response.body = [detail |-> "Data not available"]
        /\ response.endpoint = "get_alerts" =>
              /\ response.status = 200
              /\ response.body = <<>>

\* the store is empty because the latest cycle fetched nothing, and
\* get_insights was asked
C10_Witness ==
    /\ response.endpoint = "get_insights"
    /\ lifespan_pc = "serving"
    /\ economic_data_cache = EmptyDict
    /\ response.data = EmptyDict
    /\ response.status = 503

----------------------------------------------------------------------------
(* The rule engine called directly (SpecAgent): analyze_economic_conditions, *)
(* check_alerts and get_trading_signals applied to one snapshot set, which   *)
(* is a set a refresh cycle can produce.                                     *)

MaxCalls == 3

MaxClock == 1

\* update_economic_data run through with the answer choice[key] for each key
RECURSIVE RefreshWith(_, _, _)
RefreshWith(choice, i, indicators) ==
    IF i > Len(CORE_INDICATORS) THEN indicators
    ELSE RefreshWith(choice, i + 1,
             IndicatorsAfterFetch(indicators, CORE_INDICATORS[i],
                 fetch_latest_data(CORE_INDICATORS[i].series_id,
                                   choice[CORE_INDICATORS[i].key])))

\* answers that are combined freely over the keys
GridResponses(key) ==
    CASE key = "GDP"                -> {OkResp(<<10050>>, <<10000>>)}
      [] key = "UNEMPLOYMENT"       -> {OkResp(<<750>>, <<600>>), OkResp(<<350>>, <<350>>)}
      [] key = "INFLATION"          -> {OkResp(<<10100>>, <<10000>>)}
      [] key = "FED_FUNDS"          -> {OkResp(<<650>>, <<600>>), OkResp(<<200>>, <<200>>)}
      [] key = "CONSUMER_SENTIMENT" -> {OkResp(<<5500>>, <<5500>>)}

\* answers around every threshold of the rules, taken one key at a time
SweepResponses(key) ==
    CASE key = "GDP" ->
            {OkResp(<<l>>, <<10000>>) :
                l \in {9900, 9999, 10000, 10099, 10100, 10150, 10151, 10199, 10200,
                       10201, 10250, 10251, 10299, 10300, 11001, 12001}}
            \cup {OkResp(<<10300>>, Dot), OkResp(Dot, <<10000>>)}
      [] key = "UNEMPLOYMENT" ->
            {OkResp(<<l>>, <<l>>) :
                l \in {340, 350, 360, 399, 400, 450, 460, 499, 500, 600, 610, 700,
                       710, 800, 810}}
            \cup {OkResp(<<410>>, <<400>>), OkResp(<<400>>, <<410>>)}
      [] key = "INFLATION" ->
            {OkResp(<<l>>, <<10000>>) :
                l \in {9399, 9400, 9750, 9801, 10000, 10199, 10200, 10250, 10251,
                       10400, 10401, 10500, 10501, 10600, 10601, 11000, 11001, 12000,
                       12001}}
      [] key = "FED_FUNDS" ->
            {OkResp(<<200>>, <<200>>), OkResp(<<201>>, <<201>>), OkResp(<<200>>, <<190>>),
             OkResp(<<500>>, <<480>>), OkResp(<<501>>, <<480>>), OkResp(<<501>>, <<501>>),
             OkResp(<<600>>, <<600>>), OkResp(<<601>>, <<601>>), OkResp(<<150>>, <<175>>),
             OkResp(<<299>>, <<299>>), OkResp(<<300>>, <<300>>), OkResp(<<550>>, <<600>>)}
      [] key = "CONSUMER_SENTIMENT" ->
            {OkResp(<<l>>, <<l>>) :
                l \in {5999, 6000, 6999, 7000, 7999, 8000, 8999, 9000, 9001, 9999, 10000}}
            \cup {OkResp(<<9610>>, <<9600>>), OkResp(<<9590>>, <<9600>>)}

Choices ==
    [ConfiguredKeys -> {ErrorResp}]
    \cup {ch \in [ConfiguredKeys -> {ErrorResp} \cup UNION {GridResponses(k) : k \in ConfiguredKeys}] :
            \A k \in ConfiguredKeys : ch[k] \in {ErrorResp} \cup GridResponses(k)}
    \cup UNION {{[k \in ConfiguredKeys |-> IF k = key THEN r ELSE ErrorResp] :
                    r \in SweepResponses(key)} : key \in ConfiguredKeys}

SnapshotSets == {RefreshWith(ch, 1, EmptyDict) : ch \in Choices}

InitAgent ==
    /\ economic_data_cache = EmptyDict
    /\ lifespan_pc = "init"
    /\ periodic_pc = "none"
    /\ update = [c \in Callers |-> IdleFrame]
    /\ before = EmptyDict
    /\ fetched = EmptyDict
    /\ failed = {}
    /\ completed = [done |-> FALSE, failed |-> {}]
    /\ response = NoResponse
    /\ agent = [last_analysis |-> None, alerts |-> <<>>]
    /\ indicators_arg \in SnapshotSets
    /\ clock = 0
    /\ calls = <<>>

\* time passes
Tick ==
    /\ clock < MaxClock
    /\ clock' = clock + 1
    /\ UNCHANGED <<storeVars, agent, indicators_arg, calls>>

\* intelligence_agent.analyze_economic_conditions(indicators); the call's
\* record keeps the sub-scores of lines 18-22 beside the returned insight
Analyze ==
    /\ Len(calls) < MaxCalls
    /\ LET call == analyze_economic_conditions(agent, indicators_arg, clock)
       IN  /\ calls' = Append(calls, [op |-> "analyze", out |-> call.out,
                                      scores |-> SubScores(indicators_arg)])
           /\ agent' = call.self
    /\ UNCHANGED <<storeVars, indicators_arg, clock>>

\* intelligence_agent.check_alerts(indicators)
CheckAlerts ==
    /\ Len(calls) < MaxCalls
    /\ LET call == check_alerts(agent, indicators_arg, clock)
       IN  /\ calls' = Append(calls, [op |-> "alerts", out |-> call.out, scores |-> <<>>])
           /\ agent' = call.self
    /\ UNCHANGED <<storeVars, indicators_arg, clock>>

\* intelligence_agent.get_trading_signals(indicators)
TradingSignals ==
    /\ Len(calls) < MaxCalls
    /\ LET call == get_trading_signals(agent, indicators_arg)
       IN  /\ calls' = Append(calls, [op |-> "signals", out |-> call.out, scores |-> <<>>])
           /\ agent' = call.self
    /\ UNCHANGED <<storeVars, indicators_arg, clock>>

NextAgent ==
    \/ Tick
    \/ Analyze
    \/ CheckAlerts
    \/ TradingSignals

SpecAgent == InitAgent /\ [][NextAgent]_vars

----------------------------------------------------------------------------
(* Properties of the rule engine (SpecAgent) *)

CallsOf(op) == {i \in 1..Len(calls) : calls[i].op = op}

PresentIdx(scores) == {i \in 1..Len(scores) : scores[i] # NoScore}

RECURSIVE SumOver(_, _)
SumOver(scores, I) ==
    IF I = {} THEN 0
    ELSE LET i == CHOOSE j \in I : TRUE
         IN  scores[i][1] + SumOver(scores, I \ {i})

\* C5: health and confidence come from the mean of the sub-scores of the
\* indicators that are present (an absent one is left out, not counted as 0):
\* strong iff mean >= 7, moderate iff 5 <= mean < 7, weak iff mean < 5,
\* confidence = min(mean / 10, 1); for the empty set: moderate, 0.5, no concern
\* and no opportunity.
C5_HealthFromMeanOfPresent ==
    \A c \in CallsOf("analyze") :
        LET sc == calls[c].scores
            n == Cardinality(PresentIdx(sc))
            sum == SumOver(sc, PresentIdx(sc))
            out == calls[c].out
        IN  /\ n = Len(indicators_arg)
            /\ n > 0 =>
                  /\ out.economic_health = "strong" <=> sum >= 7 * n
                  /\ out.economic_health = "moderate" <=> (5 * n <= sum /\ sum < 7 * n)
                  /\ out.economic_health = "weak" <=> sum < 5 * n
                  /\ IF sum <= 10 * n
                     THEN out.confidence.num * 10 * n = sum * out.confidence.den
                     ELSE out.confidence.num = out.confidence.den
            /\ n = 0 =>
                  /\ out.economic_health = "moderate"
                  /\ out.confidence.num * 2 = out.confidence.den
                  /\ out.key_concerns = <<>>
                  /\ out.opportunities = <<>>

\* two of the five indicators present, with a mean of 7 exactly (10 and 4)
C5_Witness ==
    \E c \in CallsOf("analyze") :
        /\ Keys(indicators_arg) = {"UNEMPLOYMENT", "FED_FUNDS"}
        /\ SumOver(calls[c].scores, PresentIdx(calls[c].scores)) = 14
        /\ calls[c].out.economic_health = "strong"
        /\ calls[c].out.confidence.num * 10 = 7 * calls[c].out.confidence.den

\* the first row <<bound, score>> of a table, top-down, whose bound x meets
RECURSIVE FirstAtMost(_, _, _)
FirstAtMost(rows, x, otherwise) ==
    IF rows = <<>> THEN otherwise
    ELSE IF x <= rows[1][1] THEN rows[1][2]
    ELSE FirstAtMost(Tail(rows), x, otherwise)

RECURSIVE FirstAtLeast(_, _, _)
FirstAtLeast(rows, x, otherwise) ==
    IF rows = <<>> THEN otherwise
    ELSE IF x >= rows[1][1] THEN rows[1][2]
    ELSE FirstAtLeast(Tail(rows), x, otherwise)

\* the table of section 4.1
TableScore(key, ind) ==
    CASE key = "UNEMPLOYMENT" ->
            FirstAtMost(<< <<350, 10>>, <<450, 8>>, <<600, 6>>, <<800, 4>> >>,
                        ind.latest_value, 2)
      [] key = "INFLATION" ->
            FirstAtMost(<< <<250, 9>>, <<400, 7>>, <<600, 5>> >>,
                        Abs(ind.change_percent), 3)
      [] key = "GDP" ->
            FirstAtLeast(<< <<300, 9>>, <<200, 7>>, <<100, 6>>, <<0, 4>> >>,
                         ind.change_percent, 2)
      [] key = "CONSUMER_SENTIMENT" ->
            FirstAtLeast(<< <<10000, 9>>, <<9000, 7>>, <<8000, 6>>, <<7000, 4>> >>,
                         ind.latest_value, 3)
      [] key = "FED_FUNDS" ->
            IF ind.latest_value <= 200 /\ ind.trend = "stable" THEN 8
            ELSE IF ind.latest_value <= 500 /\ ind.trend = "up" THEN 6
            ELSE IF ind.latest_value > 500 THEN 4
            ELSE 7

\* the indicator each entry of SubScores is taken from
ScoreKeys == << "UNEMPLOYMENT", "INFLATION", "GDP", "CONSUMER_SENTIMENT", "FED_FUNDS" >>

RateGrid == {340, 350, 360, 450, 460, 600, 610, 800, 810, 900}

\* C6: each sub-score is absent when its indicator is absent and otherwise the
\* first matching rule of the table, within [0,10]; the employment sub-score
\* does not increase with the rate, and is 10 at 3.5, 8 at 3.6 and 2 at 8.1.
C6_SubScoresFollowTable ==
    \A c \in CallsOf("analyze") :
        LET sc == calls[c].scores
            u == Get(indicators_arg, "UNEMPLOYMENT")
        IN  /\ \A i \in 1..Len(ScoreKeys) :
                  IF Has(indicators_arg, ScoreKeys[i])
                  THEN /\ sc[i] = << TableScore(ScoreKeys[i], Get(indicators_arg, ScoreKeys[i])) >>
                       /\ sc[i][1] \in 0..10
                  ELSE sc[i] = NoScore
            /\ Has(indicators_arg, "UNEMPLOYMENT") =>
                  /\ u.latest_value = 350 => sc[1] = <<10>>
                  /\ u.latest_value = 360 => sc[1] = <<8>>
                  /\ u.latest_value = 810 => sc[1] = <<2>>
                  /\ \A r \in RateGrid :
                        LET other == _score_employment([u EXCEPT !.latest_value = r])
                        IN  /\ r >= u.latest_value => other[1] <= sc[1][1]
                            /\ r <= u.latest_value => other[1] >= sc[1][1]

\* the employment rule at its first bound, 3.5, the other indicators absent
C6_Witness ==
    \E c \in CallsOf("analyze") :
        /\ Keys(indicators_arg) = {"UNEMPLOYMENT"}
        /\ Get(indicators_arg, "UNEMPLOYMENT").latest_value = 350
        /\ calls[c].scores = << <<10>>, NoScore, NoScore, NoScore, NoScore >>

\* the alerts of one indicator, as severity and kind, swing first
ExpectedAlertsOf(key, ind) ==
    (IF Abs(ind.change_percent) > 1000
     THEN << [severity |-> IF Abs(ind.change_percent) > 2000 THEN "critical" ELSE "warning",
              indicator |-> ind.name, kind |-> "swing"] >>
     ELSE <<>>)
    \o (IF key = "UNEMPLOYMENT" /\ ind.latest_value > 700
        THEN << [severity |-> "critical", indicator |-> ind.name, kind |-> "threshold"] >>
        ELSE <<>>)
    \o (IF \/ key = "INFLATION" /\ Abs(ind.change_percent) > 600
           \/ key = "FED_FUNDS" /\ ind.latest_value > 600
           \/ key = "CONSUMER_SENTIMENT" /\ ind.latest_value < 6000
        THEN << [severity |-> "warning", indicator |-> ind.name, kind |-> "threshold"] >>
        ELSE <<>>)

RECURSIVE ExpectedAlerts(_, _)
ExpectedAlerts(indicators, i) ==
    IF i > Len(indicators) THEN <<>>
    ELSE ExpectedAlertsOf(indicators[i].key, indicators[i].value)
         \o ExpectedAlerts(indicators, i + 1)

KindOf(alert) ==
    IF alert.message.text = "{name} changed by {}%" THEN "swing" ELSE "threshold"

\* C7: check_alerts returns, in snapshot-set order and swing before threshold,
\* exactly: a swing alert iff |changePercent| > 10 (critical iff > 20, else
\* warning); a critical threshold alert iff UNEMPLOYMENT > 7.0; a warning
\* threshold alert iff INFLATION |changePercent| > 6.0, FED_FUNDS > 6.0 or
\* CONSUMER_SENTIMENT < 60.  UNEMPLOYMENT at 7.5 with FED_FUNDS at 6.5 yields
\* both threshold alerts.
C7_AlertsAreExactlyTheRules ==
    \A c \in CallsOf("alerts") :
        LET out == calls[c].out
        IN  /\ [i \in 1..Len(out) |->
                   [severity |-> out[i].severity, indicator |-> out[i].indicator,
                    kind |-> KindOf(out[i])]]
               = ExpectedAlerts(indicators_arg, 1)
            /\ (/\ Has(indicators_arg, "UNEMPLOYMENT")
                /\ Get(indicators_arg, "UNEMPLOYMENT").latest_value = 750
                /\ Has(indicators_arg, "FED_FUNDS")
                /\ Get(indicators_arg, "FED_FUNDS").latest_value = 650)
               => /\ \E i \in 1..Len(out) :
                        /\ out[i].severity = "critical"
                        /\ out[i].message.text = "Unemployment rate high at {}%"
                  /\ \E i \in 1..Len(out) :
                        /\ out[i].severity = "warning"
                        /\ out[i].message.text = "Federal funds rate elevated at {}%"

\* UNEMPLOYMENT at 7.5 after 6.0 (a swing of 25 %) with FED_FUNDS at 6.5: a
\* swing and a threshold alert for one indicator, then the fed-funds alert
C7_Witness ==
    \E c \in CallsOf("alerts") :
        /\ Keys(indicators_arg) = {"UNEMPLOYMENT", "FED_FUNDS"}
        /\ Len(calls[c].out) = 3
        /\ KindOf(calls[c].out[1]) = "swing"
        /\ calls[c].out[1].severity = "critical"
        /\ calls[c].out[2].message.text = "Unemployment rate high at {}%"
        /\ calls[c].out[3].message.text = "Federal funds rate elevated at {}%"

\* C8: the signal map holds bonds iff FED_FUNDS is present, equities iff GDP
\* and UNEMPLOYMENT are both present, dollar iff FED_FUNDS and GDP are both
\* present, and no other key.
C8_SignalKeysFollowPresence ==
    \A c \in CallsOf("signals") :
        LET out == calls[c].out
        IN  /\ Keys(out) \subseteq {"bonds", "equities", "dollar"}
            /\ Len(out) = Cardinality(Keys(out))
            /\ Has(out, "bonds") <=> Has(indicators_arg, "FED_FUNDS")
            /\ Has(out, "equities") <=>
                  (Has(indicators_arg, "GDP") /\ Has(indicators_arg, "UNEMPLOYMENT"))
            /\ Has(out, "dollar") <=>
                  (Has(indicators_arg, "FED_FUNDS") /\ Has(indicators_arg, "GDP"))

\* GDP and FED_FUNDS present, UNEMPLOYMENT absent: equities is left out
C8_Witness ==
    \E c \in CallsOf("signals") :
        /\ Has(indicators_arg, "GDP")
        /\ Has(indicators_arg, "FED_FUNDS")
        /\ ~Has(indicators_arg, "UNEMPLOYMENT")
        /\ Keys(calls[c].out) = {"bonds", "dollar"}

\* C9 (as claimed): two calls of the same computation on the unchanged set
\* return results identical in every field.
C9_RepeatedCallsIdentical ==
    \A i, j \in 1..Len(calls) :
        (i < j /\ calls[i].op = calls[j].op) => calls[i].out = calls[j].out

\* a result without the timestamps it carries
WithoutTimestamps(call) ==
    CASE call.op = "analyze" -> [call.out EXCEPT !.timestamp = 0]
      [] call.op = "alerts"  -> [i \in 1..Len(call.out) |-> Untimed(call.out[i])]
      [] call.op = "signals" -> call.out

\* C9 (amended): two calls of the same computation on the unchanged set return
\* results identical in every field but the timestamps, which are the time of
\* each call; no call changes the agent's fields.
C9_RepeatedCallsIdenticalButTimestamp ==
    /\ \A i, j \in 1..Len(calls) :
          (i < j /\ calls[i].op = calls[j].op) =>
              WithoutTimestamps(calls[i]) = WithoutTimestamps(calls[j])
    /\ agent = [last_analysis |-> None, alerts |-> <<>>]

\* check_alerts twice, at two times, with another call in between, alerts
\* issued both times
C9_Witness ==
    /\ Len(calls) = 3
    /\ calls[1].op = "alerts"
    /\ calls[2].op = "analyze"
    /\ calls[3].op = "alerts"
    /\ Len(calls[1].out) > 0
    /\ calls[1].out[1].timestamp < calls[3].out[1].timestamp

----------------------------------------------------------------------------
(* Properties of the health check and of the scheduling of refreshes (Spec) *)

\* C11 (as claimed): the health check reports healthy if and only if the
\* snapshot set is non-empty.
C11_HealthyIffNonEmpty ==
    response.endpoint = "health_check" =>
        (response.body.status = "healthy" <=> economic_data_cache # EmptyDict)

\* C11 (amended): the health check always answers with status healthy; its
\* data_available field is true, and its last_update present, if and only if
\* the snapshot set is non-empty.
C11_HealthyAlwaysDataAvailableIffNonEmpty ==
    response.endpoint = "health_check" =>
        /\ response.status = 200
        /\ response.body.status = "healthy"
        /\ response.body.data_available <=> economic_data_cache # EmptyDict
        /\ response.body.last_update # <<>> <=> economic_data_cache # EmptyDict

\* the health check asked while the store is empty after a cycle that fetched
\* nothing
C11_Witness ==
    /\ response.endpoint = "health_check"
    /\ economic_data_cache = EmptyDict
    /\ failed = ConfiguredKeys
    /\ response.body.status = "healthy"
    /\ ~response.body.data_available

\* C12: at most one refresh cycle is in progress at any time; the startup
\* refresh has completed before the periodic task exists; the periodic loop
\* is in a refresh only while it is past its sleep; and the store changes only
\* in the step in which a refresh cycle returns.
C12_OneRefreshAtATime ==
    /\ [](/\ Cardinality({c \in Callers : update[c].active}) <= 1
          /\ periodic_pc # "none" =>
                /\ completed.done
                /\ lifespan_pc = "serving"
                /\ ~update["lifespan"].active
          /\ update["periodic"].active <=> periodic_pc = "updating"
          /\ update["lifespan"].active <=> lifespan_pc = "updating")
    /\ [][economic_data_cache' # economic_data_cache =>
             \E c \in Callers : update[c].active /\ ~update'[c].active]_vars

\* the periodic loop in the middle of a refresh, after the startup refresh
\* has stored a non-empty set
C12_Witness ==
    /\ update["periodic"].active
    /\ update["periodic"].idx > 1
    /\ ~update["lifespan"].active
    /\ completed.done
    /\ economic_data_cache # EmptyDict

====
